---- MODULE Spec2Model ----
(***************************************************************************)
(* Model of scripts/sync_qualtrics_petitions.py: the reconciliation of     *)
(* survey rows into the _petitions directory (sync_rows and its helpers)   *)
(* and the export poll loop (wait_for_export).                             *)
(*                                                                         *)
(* A text is the sequence of its characters, one character per element.    *)
(* A path of the _petitions directory is a record [base, n]:               *)
(* the file petition-base.md when n = 1 and petition-base-n.md when n > 1  *)
(* (base "legacy" stands for a file named otherwise).                      *)
(***************************************************************************)
EXTENDS Integers, Sequences, FiniteSets, TLC

VARIABLES
    dirExists,    \* PETITIONS_DIR.exists()
    fs,           \* the files of PETITIONS_DIR: path -> text
    tok,          \* encrypted_response_token under the configured key: id -> token
    pc,           \* position of sync_rows: "idle", "loop", "done", "raised"
    rows,         \* sync_rows: the rows argument
    dry_run,      \* sync_rows: the dry_run argument
    idx,          \* sync_rows: index of the next row of the for loop
    existing,     \* sync_rows: existing_by_response, id -> path
    created,      \* sync_rows: created
    updated,      \* sync_rows: updated
    skipped,      \* sync_rows: skipped
    fs0,          \* history: fs when the current run started
    dir0,         \* history: dirExists when the current run started
    map0,         \* history: what scan_existing_petitions returned to the current run
    rerun,        \* history: the current run repeats the real run before it
    nops,         \* history: number of renames and writes of the current run
    used,         \* history: rows handed to sync_rows so far, repeated runs apart
    ppc,          \* position of wait_for_export: "off", "request", "answered",
                  \* "sleep", "returned", "no_file", "export_failed",
                  \* "timed_out", "api_error", "sleep_error"
    status,       \* wait_for_export: status of the last poll
    file_id,      \* wait_for_export: fileId of the last poll
    poll_timeout_seconds,     \* config.poll_timeout_seconds
    poll_interval_seconds,    \* config.poll_interval_seconds
    now,          \* time.time(), up to MaxClock
    started,      \* wait_for_export: started
    polls,        \* history: number of polls of wait_for_export, up to MaxPolls
    asked,        \* history: time.time() when the last poll was sent
    stage,        \* position of main: "off" or the call it is about to make,
                  \* "except" (an exception reached main), "exit"
    exit_code,    \* what main returned, NoExit before
    environ,      \* os.environ: variable -> value, NoneText when unset
    cfg,          \* the QualtricsConfig in use
    zip           \* the export archive: its member names and its first CSV

vars == <<dirExists, fs, tok, pc, rows, dry_run, idx, existing, created, updated,
          skipped, fs0, dir0, map0, rerun, nops, used,
          ppc, status, file_id, poll_timeout_seconds, poll_interval_seconds,
          now, started, polls, asked, stage, exit_code, environ, cfg, zip>>

syncVars == <<dirExists, fs, tok, pc, rows, dry_run, idx, existing, created, updated,
              skipped, fs0, dir0, map0, rerun, nops, used>>

pollVars == <<ppc, status, file_id, poll_timeout_seconds, poll_interval_seconds,
              now, started, polls, asked>>

mainVars == <<stage, exit_code, environ, cfg, zip>>

----------------------------------------------------------------------------
(* Characters and text helpers (Python str methods).                       *)

DQ == "\""

SQ == "'"

BS == "\\"

NL == "\n"

CR == "\r"

\* the control characters that Python counts as white space: vertical tab,
\* form feed, and the file, group, record and unit separators
VT == ""

FF == "\f"

FS == ""

GS == ""

RS == ""

US == ""

\* what str.strip() removes (of the characters below U+0080)
Whitespace == {" ", "\t", NL, VT, FF, CR, FS, GS, RS, US}

\* where str.splitlines() ends a line (of the characters below U+0080)
LineEnds == {NL, CR, VT, FF, FS, GS, RS}

\* s.startswith(p)
StartsWith(s, p) ==
    /\ Len(p) <= Len(s)
    /\ SubSeq(s, 1, Len(p)) = p

SetMin(S) == CHOOSE i \in S : \A j \in S : i <= j

SetMax(S) == CHOOSE i \in S : \A j \in S : i >= j

\* s.find(p, start) with 1-based positions; 0 when p does not occur
Find(s, p, start) ==
    LET hits == {i \in start..(Len(s) - Len(p) + 1) :
                    \A k \in 1..Len(p) : s[i + k - 1] = p[k]}
    IN  IF hits = {} THEN 0 ELSE SetMin(hits)

\* s.lstrip(chars), s.rstrip(chars), s.strip(chars)
LStrip(s, chars) ==
    LET keep == {i \in 1..Len(s) : s[i] \notin chars}
    IN  IF keep = {} THEN <<>> ELSE SubSeq(s, SetMin(keep), Len(s))

RStrip(s, chars) ==
    LET keep == {i \in 1..Len(s) : s[i] \notin chars}
    IN  IF keep = {} THEN <<>> ELSE SubSeq(s, 1, SetMax(keep))

Strip(s, chars) == RStrip(LStrip(s, chars), chars)

\* the concatenation of piece[lo], ..., piece[hi]
RECURSIVE Concat(_, _, _)
Concat(piece, lo, hi) ==
    IF lo > hi THEN <<>>
    ELSE IF lo = hi THEN piece[lo]
    ELSE LET mid == (lo + hi) \div 2
         IN  Concat(piece, lo, mid) \o Concat(piece, mid + 1, hi)

\* s.replace(c, new) for a single character c
ReplaceChar(s, c, new) ==
    IF \A i \in 1..Len(s) : s[i] # c THEN s
    ELSE Concat([i \in 1..Len(s) |-> IF s[i] = c THEN new ELSE <<s[i]>>], 1, Len(s))

\* s.replace("\r\n", "\n").replace("\r", "\n")
UniversalNewlines(s) ==
    LET crlf == [i \in 1..Len(s) |->
                    IF s[i] = CR /\ i < Len(s) /\ s[i + 1] = NL THEN <<>> ELSE <<s[i]>>]
    IN  IF \A i \in 1..Len(s) : s[i] # CR THEN s
        ELSE ReplaceChar(Concat(crlf, 1, Len(s)), CR, <<NL>>)

\* s.splitlines(): lines end at a line boundary, "\r\n" being one boundary;
\* no empty last line
SplitLines(s) ==
    LET IsEnd(i) == \/ i = Len(s) + 1 /\ s # <<>> /\ s[Len(s)] \notin LineEnds
                    \/ i <= Len(s) /\ s[i] \in LineEnds \ {CR}
                    \/ i <= Len(s) /\ s[i] = CR /\ ~(i < Len(s) /\ s[i + 1] = NL)
        ends == SelectSeq([i \in 1..(Len(s) + 1) |-> i], IsEnd)
        first(k) == IF k = 1 THEN 1 ELSE ends[k - 1] + 1
        last(k) == IF ends[k] <= Len(s) /\ s[ends[k]] = NL /\ ends[k] > first(k)
                      /\ s[ends[k] - 1] = CR
                   THEN ends[k] - 2 ELSE ends[k] - 1
    IN  [k \in 1..Len(ends) |-> SubSeq(s, first(k), last(k))]

\* "\n".join(lines)
RECURSIVE JoinLines(_)
JoinLines(lines) ==
    IF lines = <<>> THEN <<>>
    ELSE IF Len(lines) = 1 THEN lines[1]
    ELSE lines[1] \o <<NL>> \o JoinLines(Tail(lines))

UpperCase == <<"A", "B", "C", "D", "E", "F", "G", "H", "I", "J", "K", "L", "M",
               "N", "O", "P", "Q", "R", "S", "T", "U", "V", "W", "X", "Y", "Z">>

LowerCase == <<"a", "b", "c", "d", "e", "f", "g", "h", "i", "j", "k", "l", "m",
               "n", "o", "p", "q", "r", "s", "t", "u", "v", "w", "x", "y", "z">>

\* s.lower()
Lower(s) ==
    [i \in 1..Len(s) |->
        IF \E k \in 1..Len(UpperCase) : UpperCase[k] = s[i]
        THEN LowerCase[CHOOSE k \in 1..Len(UpperCase) : UpperCase[k] = s[i]]
        ELSE s[i]]

\* s.endswith(p)
EndsWith(s, p) ==
    /\ Len(p) <= Len(s)
    /\ SubSeq(s, Len(s) - Len(p) + 1, Len(s)) = p

\* Python's None, as a text and as a path
NoneText == <<"None">>

NonePath == [base |-> "None", n |-> 0]

----------------------------------------------------------------------------
(* Big naturals.  The mantissa of a float has 53 bits and the integers of  *)
(* TLC have 32, so the numbers behind a float are sequences of digits in   *)
(* base 2^15, the least significant digit first and the most significant   *)
(* digit not 0: zero is <<>>, 5 is <<5>>, 2^15 is <<0, 1>>.                 *)

LimbBits == 15

Base == 32768

Abs(n) == IF n < 0 THEN 0 - n ELSE n

IntMin(a, b) == IF a < b THEN a ELSE b

IntMax(a, b) == IF a > b THEN a ELSE b

\* 2^n for n in 0..LimbBits
Pow2(n) ==
    <<1, 2, 4, 8, 16, 32, 64, 128, 256, 512, 1024, 2048, 4096, 8192, 16384,
      32768>>[n + 1]

\* the big natural of the integer n >= 0
RECURSIVE BNat(_)
BNat(n) == IF n = 0 THEN <<>> ELSE <<n % Base>> \o BNat(n \div Base)

\* without zero digits at the top
BTrim(a) ==
    IF \A i \in 1..Len(a) : a[i] = 0 THEN <<>>
    ELSE SubSeq(a, 1, SetMax({i \in 1..Len(a) : a[i] # 0}))

BLimb(a, i) == IF i <= Len(a) THEN a[i] ELSE 0

\* the sum of the digits at i
BDigitSum(a, b, i) == BLimb(a, i) + BLimb(b, i)

\* a + b carries into digit i: the nearest digit below that does not just
\* pass a carry on makes one
BCarry(a, b, i) ==
    /\ \E j \in 1..(i - 1) : BDigitSum(a, b, j) # Base - 1
    /\ BDigitSum(a, b, SetMax({j \in 1..(i - 1) : BDigitSum(a, b, j) # Base - 1})) >= Base

\* a + b
BAdd(a, b) ==
    IF a = <<>> THEN b
    ELSE IF b = <<>> THEN a
    ELSE BTrim([i \in 1..(IntMax(Len(a), Len(b)) + 1) |->
              (BDigitSum(a, b, i) + (IF BCarry(a, b, i) THEN 1 ELSE 0)) % Base])

\* a - b borrows from digit i: the nearest digit below where a and b differ
\* has the smaller digit in a
BBorrow(a, b, i) ==
    /\ \E j \in 1..(i - 1) : a[j] # BLimb(b, j)
    /\ a[SetMax({j \in 1..(i - 1) : a[j] # BLimb(b, j)})]
           < BLimb(b, SetMax({j \in 1..(i - 1) : a[j] # BLimb(b, j)}))

\* a - b, for a >= b
BSub(a, b) ==
    IF b = <<>> THEN a
    ELSE BTrim([i \in 1..Len(a) |->
              (a[i] - BLimb(b, i) - (IF BBorrow(a, b, i) THEN 1 ELSE 0) + Base) % Base])

\* 1, 0 or -1 as a is above, equal to or below b: the highest digit where
\* they differ decides
BCmp(a, b) ==
    IF Len(a) > Len(b) THEN 1
    ELSE IF Len(a) < Len(b) THEN 0 - 1
    ELSE IF a = b THEN 0
    ELSE IF a[SetMax({i \in 1..Len(a) : a[i] # b[i]})]
              > b[SetMax({i \in 1..Len(a) : a[i] # b[i]})] THEN 1
    ELSE 0 - 1

\* a * k for an integer k in 0..Base-1: the low digits of the products plus
\* their high digits one place up
BTimes(a, k) ==
    IF a = <<>> THEN <<>>
    ELSE BAdd([i \in 1..Len(a) |-> (a[i] * k) % Base],
         <<0>> \o [i \in 1..Len(a) |-> (a[i] * k) \div Base])

\* a * 2^n
BShl(a, n) ==
    IF a = <<>> THEN <<>>
    ELSE [i \in 1..(n \div LimbBits) |-> 0] \o BTimes(a, Pow2(n % LimbBits))

\* a times the digits lo..hi of b, each at its place
RECURSIVE BMulRange(_, _, _, _)
BMulRange(a, b, lo, hi) ==
    IF a = <<>> THEN <<>>
    ELSE IF lo = hi THEN BShl(BTimes(a, b[lo]), LimbBits * (lo - 1))
    ELSE BAdd(BMulRange(a, b, lo, (lo + hi) \div 2),
              BMulRange(a, b, (lo + hi) \div 2 + 1, hi))

\* a * b
BMul(a, b) == IF b = <<>> THEN <<>> ELSE BMulRange(a, b, 1, Len(b))

\* the digits of a from digit k + 1 on, divided by 2^r for r < LimbBits
BShrDigits(a, k, r) ==
    [i \in 1..(Len(a) - k) |->
        (a[k + i] \div Pow2(r)) + (BLimb(a, k + i + 1) % Pow2(r)) * Pow2(LimbBits - r)]

\* a \div 2^n
BShr(a, n) ==
    IF n \div LimbBits >= Len(a) THEN <<>>
    ELSE BTrim(BShrDigits(a, n \div LimbBits, n % LimbBits))

\* bit i of a (bit 0 is the lowest)
BBit(a, i) == (BLimb(a, i \div LimbBits + 1) \div Pow2(i % LimbBits)) % 2

\* the number of bits of a: 0 for 0, else the n with 2^(n-1) <= a < 2^n
BBitLen(a) ==
    IF a = <<>> THEN 0
    ELSE LimbBits * (Len(a) - 1)
         + (CHOOSE k \in 1..LimbBits : Pow2(k - 1) <= a[Len(a)] /\ a[Len(a)] < Pow2(k))

\* the lowest n bits of a are all 0
BLowZero(a, n) == \A i \in 0..(n - 1) : BBit(a, i) = 0

\* the number of zero bits at the bottom of a # 0
BTrailingZeros(a) ==
    CHOOSE k \in 0..(BBitLen(a) - 1) : BBit(a, k) = 1 /\ BLowZero(a, k)

\* a * 2^k, or a \div 2^(-k) for a negative k
BScale(a, k) == IF k >= 0 THEN BShl(a, k) ELSE BShr(a, 0 - k)

\* the number BShr(a, s), which is below 2^30
BTop(a, s) == BLimb(BShr(a, s), 1) + Base * BLimb(BShr(a, s), 2)

\* the remainder r with the next digit of the dividend brought down
BBringDown(r, digit) == BTrim(<<digit>> \o r)

\* how many times d goes into a, for a below Base * d: with both cut to the
\* top 15 bits of d, s bits dropped, a \div d is at least the lower number
\* of the range and at most the higher one
BQuotientDigitAt(a, d, s, slack) ==
    CHOOSE q \in (BTop(a, s) \div (BTop(d, s) + slack))
                    ..IntMin(Base - 1, (BTop(a, s) + slack) \div BTop(d, s)) :
        BCmp(BTimes(d, q), a) <= 0 /\ BCmp(BTimes(d, q + 1), a) > 0

BQuotientDigit(a, d) ==
    IF BBitLen(d) > LimbBits THEN BQuotientDigitAt(a, d, BBitLen(d) - LimbBits, 1)
    ELSE BQuotientDigitAt(a, d, 0, 0)

RECURSIVE BDivDigits(_, _, _, _)

\* the digit q of the quotient, then the digits below it
BDivEmit(n, d, j, a, q) == <<q>> \o BDivDigits(n, d, j - 1, BSub(a, BTimes(d, q)))

\* long division of n by d # 0 in base 2^15: the digits of the quotient
\* from digit j down (digit 1 is the lowest), the highest first, and after
\* them a 1 when the division leaves a remainder, else a 0; r < d is the
\* remainder of the digits of n above j
BDivDigits(n, d, j, r) ==
    IF j < 1 THEN <<IF r = <<>> THEN 0 ELSE 1>>
    ELSE BDivEmit(n, d, j, BBringDown(r, BLimb(n, j)),
                  BQuotientDigit(BBringDown(r, BLimb(n, j)), d))

\* the big natural that a sequence of digits, the highest first, writes
BOfDivDigits(digits) == BTrim([i \in 1..Len(digits) |-> digits[Len(digits) + 1 - i]])

BSquare(a) == BMul(a, a)

\* 10^n
RECURSIVE BPow10(_)
BPow10(n) ==
    IF n = 0 THEN <<1>>
    ELSE IF n % 2 = 0 THEN BSquare(BPow10(n \div 2))
    ELSE BTimes(BPow10(n - 1), 10)

----------------------------------------------------------------------------
(* Floats: the values of float() and of time.time(), IEEE 754 binary64.    *)
(* A finite float is [kind |-> "num", neg, man, exp]: the number           *)
(* man * 2^exp, negated when neg, where man is a big natural below 2^53    *)
(* that is odd (so every number has one record) or is 0 with exp 0; exp is *)
(* at least -1074 and man * 2^exp is below 2^1024.  The infinities have    *)
(* kind "inf" and nan has kind "nan".  Every operation rounds its exact    *)
(* result to the nearest float, to the even mantissa on a tie.             *)

MantBits == 53

MinExp == 0 - 1074

MaxBits == 1024

Finite(neg, man, exp) == [kind |-> "num", neg |-> neg, man |-> man, exp |-> exp]

Inf == [kind |-> "inf", neg |-> FALSE, man |-> <<>>, exp |-> 0]

NegInf == [kind |-> "inf", neg |-> TRUE, man |-> <<>>, exp |-> 0]

NaN == [kind |-> "nan", neg |-> FALSE, man |-> <<>>, exp |-> 0]

IsFinite(x) == x.kind = "num"

\* the float n * 2^e for n of at most 53 bits and e >= MinExp: an infinity
\* when it is 2^1024 or more
FPack(neg, n, e) ==
    IF BBitLen(n) + e > MaxBits THEN (IF neg THEN NegInf ELSE Inf)
    ELSE IF n = <<>> THEN Finite(neg, <<>>, 0)
    ELSE Finite(neg, BShr(n, BTrailingZeros(n)), e + BTrailingZeros(n))

\* n * 2^e (and a little more when sticky) rounded to a multiple of 2^q,
\* for q > e: up when the part below 2^q is above a half, or is a half and
\* the multiple below is odd
FRoundAt(neg, n, e, sticky, q) ==
    FPack(neg,
          IF /\ BBit(n, q - e - 1) = 1
             /\ sticky \/ ~BLowZero(n, q - e - 1) \/ BBit(n, q - e) = 1
          THEN BAdd(BShr(n, q - e), <<1>>)
          ELSE BShr(n, q - e),
          q)

\* the float nearest to n * 2^e, or to a number between n * 2^e and
\* (n + 1) * 2^e when sticky (n then has more than 53 bits): 53 bits are
\* kept, fewer where the float is subnormal
FRound(neg, n, e, sticky) ==
    IF IntMax(e + BBitLen(n) - MantBits, MinExp) <= e THEN FPack(neg, n, e)
    ELSE FRoundAt(neg, n, e, sticky, IntMax(e + BBitLen(n) - MantBits, MinExp))

\* the float of the integer n
Float(n) == FRound(n < 0, BNat(Abs(n)), 0, FALSE)

\* -x
FNeg(x) == IF x.kind = "nan" THEN x ELSE [x EXCEPT !.neg = ~x.neg]

\* |x| in units of 2^e, for a finite x and e <= x.exp
FMag(x, e) == BShl(x.man, x.exp - e)

\* x + y for finite x and y, e the lower of their exponents
FAddFinite(x, y, e) ==
    IF x.neg = y.neg THEN FRound(x.neg, BAdd(FMag(x, e), FMag(y, e)), e, FALSE)
    ELSE IF BCmp(FMag(x, e), FMag(y, e)) = 0 THEN Finite(FALSE, <<>>, 0)
    ELSE IF BCmp(FMag(x, e), FMag(y, e)) > 0
    THEN FRound(x.neg, BSub(FMag(x, e), FMag(y, e)), e, FALSE)
    ELSE FRound(y.neg, BSub(FMag(y, e), FMag(x, e)), e, FALSE)

\* x + y
FAdd(x, y) ==
    IF x.kind = "nan" \/ y.kind = "nan" THEN NaN
    ELSE IF x.kind = "inf" THEN (IF y.kind = "inf" /\ y.neg # x.neg THEN NaN ELSE x)
    ELSE IF y.kind = "inf" THEN y
    ELSE FAddFinite(x, y, IntMin(x.exp, y.exp))

\* x - y
FSub(x, y) == FAdd(x, FNeg(y))

\* x * y
FMul(x, y) ==
    IF x.kind = "nan" \/ y.kind = "nan" THEN NaN
    ELSE IF x.kind = "inf" \/ y.kind = "inf"
    THEN (IF (x.kind = "num" /\ x.man = <<>>) \/ (y.kind = "num" /\ y.man = <<>>)
          THEN NaN
          ELSE IF x.neg # y.neg THEN NegInf ELSE Inf)
    ELSE FRound(x.neg # y.neg, BMul(x.man, y.man), x.exp + y.exp, FALSE)

\* x > y for finite x and y, e the lower of their exponents
FGreaterFinite(x, y, e) ==
    IF x.neg # y.neg THEN y.neg /\ (x.man # <<>> \/ y.man # <<>>)
    ELSE IF x.neg THEN BCmp(FMag(y, e), FMag(x, e)) > 0
    ELSE BCmp(FMag(x, e), FMag(y, e)) > 0

\* x > y: false when either is nan
FGreater(x, y) ==
    IF x.kind = "nan" \/ y.kind = "nan" THEN FALSE
    ELSE IF x.kind = "inf" THEN ~x.neg /\ ~(y.kind = "inf" /\ ~y.neg)
    ELSE IF y.kind = "inf" THEN y.neg
    ELSE FGreaterFinite(x, y, IntMin(x.exp, y.exp))

DigitChars == <<"0", "1", "2", "3", "4", "5", "6", "7", "8", "9">>

IsDigit(c) == \E d \in 1..10 : DigitChars[d] = c

\* digits, with single underscores between digits allowed
IsDigitPart(s) ==
    /\ s # <<>>
    /\ IsDigit(s[1])
    /\ IsDigit(s[Len(s)])
    /\ \A i \in 1..Len(s) :
          IsDigit(s[i]) \/ (s[i] = "_" /\ IsDigit(s[i - 1]) /\ IsDigit(s[i + 1]))

DigitsOf(s) == SelectSeq(s, IsDigit)

DigitValue(c) == (CHOOSE d \in 1..10 : DigitChars[d] = c) - 1

\* the number a text of at most 9 decimal digits writes
RECURSIVE ParseDigits(_)
ParseDigits(text) ==
    IF text = <<>> THEN 0
    ELSE 10 * ParseDigits(SubSeq(text, 1, Len(text) - 1)) + DigitValue(text[Len(text)])

\* the big natural a text of decimal digits writes: its first half, taken
\* as many places up as the second half has digits, plus the second half
RECURSIVE BOfDigits(_)
BOfDigits(text) ==
    IF Len(text) <= 9 THEN BNat(ParseDigits(text))
    ELSE BAdd(BMul(BOfDigits(SubSeq(text, 1, Len(text) \div 2)),
                   BPow10(Len(text) - Len(text) \div 2)),
              BOfDigits(SubSeq(text, Len(text) \div 2 + 1, Len(text))))

\* exponents from here on act alike on every text shorter than this many
\* characters: the number is 0, or is far above or far below every float
ExponentCap == 10000000

\* the number the digits of an exponent write, or ExponentCap when it is more
ExponentDigits(digits) ==
    IF Len(LStrip(digits, {"0"})) > 7 THEN ExponentCap
    ELSE ParseDigits(LStrip(digits, {"0"}))

\* the exponent written after the "e": 0 when there is none
ExponentOf(hasExp, expo) ==
    IF ~hasExp THEN 0
    ELSE IF expo[1] = "-" THEN 0 - ExponentDigits(DigitsOf(expo))
    ELSE ExponentDigits(DigitsOf(expo))

\* digits in base 2^15 of a quotient: 60 bits, of which the quotient has the
\* lower 59 or all, more than the 53 of a mantissa
QuotientDigits == 4

\* the float nearest to q * 2^(-k), or to a number between that and
\* (q + 1) * 2^(-k) when something was lost: digits holds the digits of q
\* and a last element that is 1 when the division left a remainder
FloatOfQuotient(neg, digits, k, lost) ==
    FRound(neg, BOfDivDigits(SubSeq(digits, 1, Len(digits) - 1)), 0 - k,
           digits[Len(digits)] = 1 \/ lost)

\* the float nearest to n / d for big naturals n # 0 and d # 0, with n
\* scaled by 2^k to have one bit fewer than d and QuotientDigits digits
\* have together: the bits of n above these digits are below d and start
\* the remainder
FloatOfRatio(neg, n, d, k) ==
    FloatOfQuotient(neg,
                    BDivDigits(BScale(n, k), d, QuotientDigits,
                               BShr(BScale(n, k), LimbBits * QuotientDigits)),
                    k,
                    k < 0 /\ ~BLowZero(n, 0 - k))

\* the float nearest to n * 10^x, for a big natural n written with len
\* digits.  A number of 10^309 or more is above every float and gives an
\* infinity; a number below 10^-324 is less than half the smallest float
\* above 0 and gives 0
FloatOfDecimal(neg, n, len, x) ==
    IF n = <<>> THEN Finite(neg, <<>>, 0)
    ELSE IF x >= 309 THEN (IF neg THEN NegInf ELSE Inf)
    ELSE IF len + x <= 0 - 324 THEN Finite(neg, <<>>, 0)
    ELSE IF x >= 0 THEN FRound(neg, BMul(n, BPow10(x)), 0, FALSE)
    ELSE FloatOfRatio(neg, n, BPow10(0 - x),
                      BBitLen(BPow10(0 - x)) - 1 + LimbBits * QuotientDigits
                          - BBitLen(n))

\* a text without its leading sign
Unsigned(s) == IF s # <<>> /\ s[1] \in {"+", "-"} THEN Tail(s) ELSE s

\* the white space float() passes over at both ends of its argument (the
\* four separators that str.strip() removes are not among it)
FloatSpace == {" ", "\t", NL, VT, FF, CR}

\* the float of the digits of intp and fracp around the point, times ten to
\* the exponent expo (hasExp tells whether an exponent was written); not ok
\* when a part is not digits or both parts are empty
DecimalValue(neg, intp, fracp, hasExp, expo) ==
    IF /\ intp = <<>> \/ IsDigitPart(intp)
       /\ fracp = <<>> \/ IsDigitPart(fracp)
       /\ intp # <<>> \/ fracp # <<>>
       /\ ~hasExp \/ IsDigitPart(Unsigned(expo))
    THEN [ok |-> TRUE,
          value |-> FloatOfDecimal(neg, BOfDigits(DigitsOf(intp) \o DigitsOf(fracp)),
                                   Len(DigitsOf(intp)) + Len(DigitsOf(fracp)),
                                   ExponentOf(hasExp, expo) - Len(DigitsOf(fracp)))]
    ELSE [ok |-> FALSE, value |-> NaN]

\* the mantissa mant, with its point at dot (0 when it has none), and the
\* exponent
DecimalOf(neg, mant, dot, hasExp, expo) ==
    DecimalValue(neg,
                 IF dot = 0 THEN mant ELSE SubSeq(mant, 1, dot - 1),
                 IF dot = 0 THEN <<>> ELSE SubSeq(mant, dot + 1, Len(mant)),
                 hasExp, expo)

\* a decimal number with its "e" or "E" at epos (0 when it has none)
Decimal(neg, body, epos) ==
    DecimalOf(neg,
              IF epos = 0 THEN body ELSE SubSeq(body, 1, epos - 1),
              Find(IF epos = 0 THEN body ELSE SubSeq(body, 1, epos - 1), <<".">>, 1),
              epos # 0,
              IF epos = 0 THEN <<>> ELSE SubSeq(body, epos + 1, Len(body)))

\* the text after white space and sign: inf, infinity, nan or a decimal
FloatOfBody(neg, body) ==
    IF Lower(body) \in {<<"i", "n", "f">>, <<"i", "n", "f", "i", "n", "i", "t", "y">>}
    THEN [ok |-> TRUE, value |-> IF neg THEN NegInf ELSE Inf]
    ELSE IF Lower(body) = <<"n", "a", "n">> THEN [ok |-> TRUE, value |-> NaN]
    ELSE Decimal(neg, body, Find(Lower(body), <<"e">>, 1))

\* float(text): ok tells whether float() accepts the text, value is the
\* float it returns then: the float nearest to the number written.  Accepted
\* are, between white space and after an optional sign: inf, infinity and
\* nan in any case, and decimal numbers with an optional point and an
\* optional exponent
ParseFloat(text) ==
    FloatOfBody(StartsWith(Strip(text, FloatSpace), <<"-">>),
                Unsigned(Strip(text, FloatSpace)))

\* the float a text writes, for a text that float() accepts
FloatOf(text) == ParseFloat(text).value

----------------------------------------------------------------------------
(* Rendering and reading a document.                                       *)

yaml_quote(value) ==
    <<DQ>> \o ReplaceChar(ReplaceChar(value, BS, <<BS, BS>>), DQ, <<BS, DQ>>) \o <<DQ>>

normalize_body(value) ==
    Strip(UniversalNewlines(value), Whitespace)

\* "---"
Dashes == <<"-", "-", "-">>

\* "layout: petition"
LayoutLine == <<"l", "a", "y", "o", "u", "t", ":", " ", "p", "e", "t", "i", "t", "i", "o", "n">>

\* "title"
KeyTitle == <<"t", "i", "t", "l", "e">>

\* "qualtrics_response_id"
KeyResponseId ==
    <<"q", "u", "a", "l", "t", "r", "i", "c", "s", "_", "r", "e", "s", "p", "o", "n", "s", "e", "_", "i", "d">>

\* "qualtrics_recorded_date"
KeyRecordedDate ==
    <<"q", "u", "a", "l", "t", "r", "i", "c", "s", "_", "r", "e", "c", "o", "r", "d", "e", "d", "_", "d", "a", "t", "e">>

\* "source: qualtrics"
SourceLine == <<"s", "o", "u", "r", "c", "e", ":", " ", "q", "u", "a", "l", "t", "r", "i", "c", "s">>

render_markdown(title, body, response_id, recorded_date) ==
    LET front == <<
            Dashes,
            LayoutLine,
            KeyTitle \o <<":", " ">> \o yaml_quote(title),
            KeyResponseId \o <<":", " ", DQ>> \o response_id \o <<DQ>>,
            KeyRecordedDate \o <<":", " ", DQ>> \o recorded_date \o <<DQ>>,
            SourceLine,
            Dashes,
            <<>> >>
    IN  JoinLines(front) \o RStrip(body, Whitespace) \o <<NL>>

\* what a path holds when it cannot be read as a file (a directory named
\* *.md, a file without read permission): reading it raises OSError
Unreadable == <<"OSError">>

\* Path.read_text: universal newlines on reading
read_text(bytes) == UniversalNewlines(bytes)

\* the first line of `lines` that starts with key + ":", or NoneText
FirstKeyLine(lines, key) ==
    LET IsKeyLine(line) == StartsWith(line, key \o <<":">>)
        found == SelectSeq(lines, IsKeyLine)
    IN  IF found = <<>> THEN NoneText ELSE found[1]

\* read_front_matter_value of a path that holds bytes; positions are 1-based,
\* text.find("\n---\n", 4) searches from the fifth character on
read_front_matter_value(bytes, key) ==
    IF bytes = Unreadable THEN NoneText      \* "except OSError: return None"
    ELSE LET text == read_text(bytes) IN
    IF ~StartsWith(text, Dashes \o <<NL>>) THEN NoneText
    ELSE LET end == Find(text, <<NL>> \o Dashes \o <<NL>>, 5) IN
         IF end = 0 THEN NoneText
         ELSE LET front == SubSeq(text, 5, end - 1)
                  line == FirstKeyLine(SplitLines(front), key)
              IN  IF line = NoneText THEN NoneText
                  ELSE LET colon == Find(line, <<":">>, 1)
                           rest == SubSeq(line, colon + 1, Len(line))
                       IN  Strip(Strip(Strip(rest, Whitespace), {DQ}), {SQ})

----------------------------------------------------------------------------
(* Bounds and inputs.                                                      *)

\* rows handed to sync_rows over all the runs of one behaviour
MaxRows == 2

IdR == <<"R">>

IdS == <<"S">>

IdDR == <<DQ, "R">>

IdQDR == <<SQ, DQ, "R">>

Ids == {IdR, IdS, IdDR, IdQDR}

TitleT == <<"t">>

TitleU == <<"u">>

BodyB == <<"b">>

Date1 == <<"1">>

PetitionRow(title, body, response_id, is_published) ==
    [title |-> title, body |-> body, response_id |-> response_id,
     recorded_date |-> Date1, is_published |-> is_published]

EligibleRows ==
    {PetitionRow(TitleT, BodyB, IdR, TRUE), PetitionRow(TitleU, BodyB, IdR, TRUE),
     PetitionRow(TitleT, BodyB, IdS, TRUE), PetitionRow(TitleT, BodyB, IdDR, TRUE),
     PetitionRow(TitleT, BodyB, IdQDR, TRUE)}

IneligibleRows ==
    {PetitionRow(TitleT, BodyB, IdR, FALSE), PetitionRow(<<>>, BodyB, IdR, TRUE),
     PetitionRow(TitleT, <<>>, IdR, TRUE), PetitionRow(TitleT, BodyB, <<>>, TRUE)}

RowSet == EligibleRows \cup IneligibleRows

\* the row lists of at most n rows
RowLists(n) == UNION {[1..k -> RowSet] : k \in 0..n}

\* encrypted_response_token as a function of the id (the key is fixed): one map
\* without collisions and one where the tokens of all ids collide
TokenMaps ==
    {[i \in Ids |-> CASE i = IdR -> "A" [] i = IdS -> "B" [] i = IdDR -> "C" [] OTHER -> "D"],
     [i \in Ids |-> "A"]}

Path(base, n) == [base |-> base, n |-> n]

EmptyDir == [p \in {} |-> <<>>]

\* the directories a run may find: none, an empty one, a document of R under a
\* name of its own, a file without front matter under R's first name, an
\* entry that cannot be read under R's first name, a document of S under R's
\* first name
InitDirs(tk) ==
    {EmptyDir,
     Path("legacy", 1) :> render_markdown(TitleT, BodyB, IdR, Date1),
     Path(tk[IdR], 1) :> <<"x">>,
     Path(tk[IdR], 1) :> Unreadable,
     Path(tk[IdR], 1) :> render_markdown(TitleT, BodyB, IdS, Date1)}

----------------------------------------------------------------------------
(* Path resolution and the directory scan.                                 *)

encrypted_response_token(response_id) == tok[response_id]

\* a probe that takes the first name whether it is free or not
Probe_first(f, base, n, current_path) == Path(base, n)

\* a probe that passes over a free name next to a taken one
Probe_skip(f, base, n, current_path) ==
    IF Path(base, n) \notin DOMAIN f THEN Path(base, n)
    ELSE IF current_path # NonePath /\ Path(base, n) = current_path THEN Path(base, n)
    ELSE LET free == {k \in (n + 2)..(n + 2 + Cardinality(DOMAIN f)) :
                         Path(base, k) \notin DOMAIN f}
         IN  Path(base, SetMin(free))

\* the while loop of choose_petition_path: candidates base, base-2, base-3, ...
RECURSIVE Probe(_, _, _, _)
Probe(f, base, n, current_path) ==
    LET candidate == Path(base, n) IN
    IF candidate \notin DOMAIN f THEN candidate
    ELSE IF current_path # NonePath /\ candidate = current_path THEN candidate
    ELSE Probe(f, base, n + 1, current_path)

choose_petition_path(f, response_id, current_path) ==
    Probe(f, encrypted_response_token(response_id), 1, current_path)

\* the qualtrics_response_id a file carries, NoneText when it carries none
ResponseIdOf(bytes) ==
    LET v == read_front_matter_value(bytes, KeyResponseId)
    IN  IF v = <<>> THEN NoneText ELSE v

IdsIn(f) == {ResponseIdOf(f[p]) : p \in DOMAIN f} \ {NoneText}

\* scan_existing_petitions: one path per id; when several files carry an id
\* the last one in glob order wins, and glob order is not specified
ScanResults(idOf) ==
    LET ids == {idOf[p] : p \in DOMAIN idOf} \ {NoneText}
    IN  {m \in [ids -> DOMAIN idOf] : \A i \in ids : idOf[m[i]] = i}

scan_existing_petitions(f) ==
    UNION {ScanResults(idOf) : idOf \in {[p \in DOMAIN f |-> ResponseIdOf(f[p])]}}

----------------------------------------------------------------------------
(* sync_rows.                                                              *)

Rename(f, from, to) ==
    [p \in (DOMAIN f \ {from}) \cup {to} |-> IF p = to THEN f[from] ELSE f[p]]

WriteText(f, path, text) ==
    [p \in DOMAIN f \cup {path} |-> IF p = path THEN text ELSE f[p]]

\* the lengths at which a failing write may leave the text: any number of
\* its characters short of all
Cuts(text) == 0..(Len(text) - 1)

\* target.write_text raises OSError: open() has raised and the directory is
\* as it was, or the file was opened (and so truncated) and the error came
\* while writing, which leaves a prefix of the text in it
FailedWrites(f, path, text) ==
    {f} \cup {WriteText(f, path, SubSeq(text, 1, n)) : n \in Cuts(text)}

SetPath(m, response_id, path) ==
    [i \in DOMAIN m \cup {response_id} |-> IF i = response_id THEN path ELSE m[i]]

\* a field check that forgets the body
MissingField_no_body(row) ==
    row.response_id = <<>> \/ row.title = <<>>

\* "if not response_id or not title or not body"
MissingField(row) ==
    row.response_id = <<>> \/ row.title = <<>> \/ row.body = <<>>

\* "moved = current is not None and current.resolve() != target.resolve()"
Moved(current, target) == current # NonePath /\ current # target

\* "baseline = current if moved and dry_run and current is not None else target"
Baseline(current, target, moved, dry) ==
    IF moved /\ dry /\ current # NonePath THEN current ELSE target

\* "if already == markdown and not moved": the row is skipped
Unchanged(already, markdown, moved) == already = markdown /\ ~moved

\* a write that happens only when the target does not exist yet
MustWrite_new_only(already, markdown, dry) == ~dry /\ already = NoneText

\* "if not dry_run and already != markdown": the target is written
MustWrite(already, markdown, dry) == ~dry /\ already # markdown

\* a skipped row that is counted nowhere
Skip_uncounted(st) == st

\* "skipped += 1"
Skip(st) == [st EXCEPT !.skipped = @ + 1]

\* one iteration of the for loop of sync_rows on the run state st
sync_row(st, row, dry) ==
    IF ~row.is_published THEN Skip(st)
    ELSE IF MissingField(row) THEN Skip(st)
    ELSE
      LET response_id == row.response_id
          current == IF response_id \in DOMAIN st.existing
                     THEN st.existing[response_id] ELSE NonePath
          target == choose_petition_path(st.fs, response_id, current)
          moved == Moved(current, target)
      IN
      IF moved /\ ~dry /\ current \notin DOMAIN st.fs
      THEN [st EXCEPT !.raised = TRUE]     \* current.rename: FileNotFoundError
      ELSE
        LET fs1 == IF moved /\ ~dry THEN Rename(st.fs, current, target) ELSE st.fs
            n1 == IF moved /\ ~dry THEN st.nops + 1 ELSE st.nops
            markdown == render_markdown(row.title, row.body, response_id, row.recorded_date)
            baseline == Baseline(current, target, moved, dry)
            already == IF baseline \in DOMAIN fs1 THEN read_text(fs1[baseline]) ELSE NoneText
            map1 == SetPath(st.existing, response_id, target)
        IN
        IF baseline \in DOMAIN fs1 /\ fs1[baseline] = Unreadable
        THEN [st EXCEPT !.fs = fs1, !.nops = n1, !.raised = TRUE]   \* baseline.read_text: OSError
        ELSE IF Unchanged(already, markdown, moved)
        THEN Skip([st EXCEPT !.fs = fs1, !.nops = n1, !.existing = map1])
        ELSE
          LET doWrite == MustWrite(already, markdown, dry)
              fs2 == IF doWrite THEN WriteText(fs1, target, markdown) ELSE fs1
              n2 == IF doWrite THEN n1 + 1 ELSE n1
          IN  IF current # NonePath
              THEN [st EXCEPT !.fs = fs2, !.nops = n2, !.updated = @ + 1, !.existing = map1]
              ELSE [st EXCEPT !.fs = fs2, !.nops = n2, !.created = @ + 1, !.existing = map1]

\* the state of a run that has scanned the directory f and found m
RunState(f, m) ==
    [fs |-> f, existing |-> m, created |-> 0, updated |-> 0, skipped |-> 0,
     nops |-> 0, raised |-> FALSE]

\* the for loop of sync_rows from row k on
RECURSIVE sync_rows_from(_, _, _, _)
sync_rows_from(st, rws, k, dry) ==
    IF k > Len(rws) \/ st.raised THEN st
    ELSE sync_rows_from(sync_row(st, rws[k], dry), rws, k + 1, dry)

\* what sync_rows returns
Counts(st) == <<st.created, st.updated, st.skipped>>

Here ==
    [fs |-> fs, existing |-> existing, created |-> created, updated |-> updated,
     skipped |-> skipped, nops |-> nops, raised |-> pc = "raised"]

----------------------------------------------------------------------------
(* rows_from_zip: from the export archive to the rows.                     *)

TrueTokens == {<<"1">>, <<"t", "r", "u", "e">>, <<"t">>, <<"y", "e", "s">>, <<"y">>}

FalseTokens == {<<"0">>, <<"f", "a", "l", "s", "e">>, <<"f">>, <<"n", "o">>, <<"n">>}

\* parse_bool_token: "True", "False" or "None"
parse_bool_token(value) ==
    LET normalized == Lower(Strip(value, Whitespace)) IN
    IF normalized \in TrueTokens THEN "True"
    ELSE IF normalized \in FalseTokens THEN "False"
    ELSE "None"

published_matches(value, expected) ==
    LET value_normalized == Strip(value, Whitespace)
        expected_normalized == Strip(expected, Whitespace)
        value_bool == parse_bool_token(value_normalized)
        expected_bool == parse_bool_token(expected_normalized)
    IN  IF value_normalized = expected_normalized THEN TRUE
        ELSE IF value_bool # "None" /\ expected_bool # "None"
             THEN value_bool = expected_bool
        ELSE FALSE

DotCsv == <<".", "c", "s", "v">>

\* "csv_names = [name for name in zf.namelist() if name.lower().endswith(".csv")]"
csv_names(names) ==
    LET IsCsv(name) == EndsWith(Lower(name), DotCsv) IN SelectSeq(names, IsCsv)

\* header_index.get(column_name): the 0-based index of the last header that
\* is column_name once stripped, NoIndex when there is none
NoIndex == 0 - 1

header_index(headers, column_name) ==
    LET hits == {i \in 1..Len(headers) : Strip(headers[i], Whitespace) = column_name}
    IN  IF hits = {} THEN NoIndex ELSE SetMax(hits) - 1

\* "required_columns": title, body, id and published column, and the date
\* column when it is set
required_columns(c) ==
    {c.title_column, c.body_column, c.response_id_column, c.published_column}
        \cup (IF c.recorded_date_column # <<>> THEN {c.recorded_date_column} ELSE {})

\* "missing_columns": the required names that are not empty and not a header
missing_columns(headers, c) ==
    {name \in required_columns(c) : name # <<>> /\ header_index(headers, name) = NoIndex}

\* cell(values, column_name)
cell(headers, values, column_name) ==
    IF column_name = <<>> THEN <<>>
    ELSE LET i == header_index(headers, column_name) IN
         IF i = NoIndex \/ i >= Len(values) THEN <<>>
         ELSE Strip(values[i + 1], Whitespace)

\* the PetitionRow made of one line of the CSV
row_of(headers, values, c) ==
    [title |-> cell(headers, values, c.title_column),
     body |-> normalize_body(cell(headers, values, c.body_column)),
     response_id |-> cell(headers, values, c.response_id_column),
     recorded_date |-> cell(headers, values, c.recorded_date_column),
     is_published |-> published_matches(cell(headers, values, c.published_column),
                                        c.published_value)]

\* rows_from_zip: raised tells that it raises (not a zip archive, no CSV in
\* it, a required column missing), rows is what it returns otherwise
rows_from_zip(z, c) ==
    IF ~z.is_zip THEN [raised |-> TRUE, rows |-> <<>>]
    ELSE IF csv_names(z.names) = <<>> THEN [raised |-> TRUE, rows |-> <<>>]
    ELSE IF z.table = <<>> THEN [raised |-> FALSE, rows |-> <<>>]
    ELSE LET headers == z.table[1] IN
         IF missing_columns(headers, c) # {} THEN [raised |-> TRUE, rows |-> <<>>]
         ELSE [raised |-> FALSE,
               rows |-> [k \in 1..(Len(z.table) - 1) |-> row_of(headers, z.table[k + 1], c)]]

\* column names, a 16 character key, the configuration all inputs vary
ColT == <<"T">>

ColB == <<"B">>

ColI == <<"I">>

ColP == <<"P">>

ColD == <<"D">>

Key16 == [i \in 1..16 |-> "k"]

BaseConfig ==
    [base_url |-> <<"u">>, api_token |-> <<"a">>, survey_id |-> <<"s">>,
     title_column |-> ColT, body_column |-> ColB, response_id_column |-> ColI,
     published_column |-> ColP, published_value |-> <<"1">>,
     recorded_date_column |-> ColD, url_encryption_key |-> Key16,
     poll_interval_seconds |-> Float(1), poll_timeout_seconds |-> Float(1)]

\* the column names load_config falls back to
Finished == <<"F", "i", "n", "i", "s", "h", "e", "d">>

RecordedDate == <<"R", "e", "c", "o", "r", "d", "e", "d", "D", "a", "t", "e">>

\* bytes that are no zip archive
BadZip == [is_zip |-> FALSE, names |-> <<>>, table |-> <<>>]

ZipNames ==
    {<<>>, << <<"r", ".", "t", "x", "t">> >>,
     << <<"r", ".", "t", "x", "t">>, <<"a", ".", "C", "S", "V">> >>}

\* the header rows of the archives: the configured column names, the names
\* load_config falls back to, and rows that lack a name
Headers ==
    {<<ColT, ColB, ColI, ColP, ColD>>, <<ColT, ColB, ColI, <<" ", "P">>, ColD>>,
     <<ColT, ColB, ColI, Finished, RecordedDate>>,
     <<ColT, ColB, ColI>>, <<ColT, ColI, ColP, ColD>>}

\* the lines of a CSV under the first three headers: cells of the title,
\* body, id, published and date columns; a short line; an empty line
DataLines ==
    {<<TitleT, BodyB, IdR, <<"1">>, Date1>>, <<TitleT, BodyB, IdS, <<"0">>, Date1>>,
     <<TitleU, <<" ", "b", NL>>, IdR, <<" ", "Y", "e", "s">>, Date1>>,
     <<TitleT, BodyB, IdR, <<>>, Date1>>, <<TitleT, BodyB, IdR>>, <<>>}

LineLists(n) == UNION {[1..k -> DataLines] : k \in 0..n}

\* the archives: no archive at all, or member names and the first CSV as a
\* table (empty, or a header and at most n lines)
Zips(n) ==
    {BadZip} \cup
    {[is_zip |-> TRUE, names |-> nm, table |-> t] :
        nm \in ZipNames,
        t \in {<<>>} \cup {<<h>> \o ls : h \in Headers, ls \in LineLists(n)}}

----------------------------------------------------------------------------
(* load_config: from the environment to the configuration.                 *)

\* "if len(cfg.url_encryption_key) < 16"
MinKeyLength == 16

\* os.environ.get(name, ""): the environment is a record, NoneText when unset
environ_get(e, name) == IF e[name] = NoneText THEN <<>> ELSE e[name]

\* env_required: the stripped value, empty when it raises
env_required(e, name) == Strip(environ_get(e, name), Whitespace)

env_optional(e, name, default) ==
    IF e[name] = NoneText THEN Strip(default, Whitespace)
    ELSE IF Strip(e[name], Whitespace) # <<>> THEN Strip(e[name], Whitespace)
    ELSE Strip(default, Whitespace)

RequiredNames ==
    {"QUALTRICS_BASE_URL", "QUALTRICS_API_TOKEN", "QUALTRICS_SURVEY_ID",
     "QUALTRICS_TITLE_COLUMN", "QUALTRICS_BODY_COLUMN", "QUALTRICS_URL_ENCRYPTION_KEY"}

DefaultInterval == <<"2">>

DefaultTimeout == <<"1", "8", "0">>

\* the configuration made of the environment e and of its optional settings
\* as env_optional and float() return them; raised tells that load_config
\* raises (a required variable missing or blank, a poll setting that float()
\* refuses, the title and body column equal, a key shorter than 16
\* characters), cfg is what it returns otherwise
config_from(e, interval, timeout, published, value) ==
    [raised |-> \/ \E name \in RequiredNames : env_required(e, name) = <<>>
                \/ ~interval.ok
                \/ ~timeout.ok
                \/ env_required(e, "QUALTRICS_TITLE_COLUMN")
                      = env_required(e, "QUALTRICS_BODY_COLUMN")
                \/ Len(env_required(e, "QUALTRICS_URL_ENCRYPTION_KEY")) < MinKeyLength,
     cfg |-> [base_url |-> RStrip(env_required(e, "QUALTRICS_BASE_URL"), {"/"}),
              api_token |-> env_required(e, "QUALTRICS_API_TOKEN"),
              survey_id |-> env_required(e, "QUALTRICS_SURVEY_ID"),
              title_column |-> env_required(e, "QUALTRICS_TITLE_COLUMN"),
              body_column |-> env_required(e, "QUALTRICS_BODY_COLUMN"),
              response_id_column |->
                  env_optional(e, "QUALTRICS_RESPONSE_ID_COLUMN",
                               <<"R", "e", "s", "p", "o", "n", "s", "e", "I", "d">>),
              published_column |-> IF published = <<>> THEN Finished ELSE published,
              published_value |-> IF value = <<>> THEN <<"1">> ELSE value,
              recorded_date_column |->
                  env_optional(e, "QUALTRICS_RECORDED_DATE_COLUMN", RecordedDate),
              url_encryption_key |-> env_required(e, "QUALTRICS_URL_ENCRYPTION_KEY"),
              poll_interval_seconds |-> interval.value,
              poll_timeout_seconds |-> timeout.value]]

\* load_config in the environment e
load_config(e) ==
    config_from(e,
                ParseFloat(env_optional(e, "QUALTRICS_POLL_INTERVAL_SECONDS", DefaultInterval)),
                ParseFloat(env_optional(e, "QUALTRICS_POLL_TIMEOUT_SECONDS", DefaultTimeout)),
                env_optional(e, "QUALTRICS_PUBLISHED_COLUMN", Finished),
                env_optional(e, "QUALTRICS_PUBLISHED_VALUE", <<"1">>))

\* an environment that sets every variable the model's archives need
BaseEnv ==
    [QUALTRICS_BASE_URL |-> <<"u", "/">>, QUALTRICS_API_TOKEN |-> <<"a">>,
     QUALTRICS_SURVEY_ID |-> <<"s">>, QUALTRICS_TITLE_COLUMN |-> ColT,
     QUALTRICS_BODY_COLUMN |-> <<" ", "B">>, QUALTRICS_RESPONSE_ID_COLUMN |-> ColI,
     QUALTRICS_PUBLISHED_COLUMN |-> ColP, QUALTRICS_PUBLISHED_VALUE |-> NoneText,
     QUALTRICS_RECORDED_DATE_COLUMN |-> ColD, QUALTRICS_URL_ENCRYPTION_KEY |-> Key16,
     QUALTRICS_POLL_INTERVAL_SECONDS |-> <<"1">>,
     QUALTRICS_POLL_TIMEOUT_SECONDS |-> <<"1">>]

\* the environments main is started in: complete ones (one with the default
\* poll settings, one with a zero timeout, one with an interval of 1.5
\* seconds, one with the interval nan and the timeout inf), and ones
\* load_config refuses
Envs ==
    {BaseEnv,
     [BaseEnv EXCEPT !.QUALTRICS_POLL_INTERVAL_SECONDS = NoneText,
                     !.QUALTRICS_POLL_TIMEOUT_SECONDS = NoneText],
     [BaseEnv EXCEPT !.QUALTRICS_POLL_TIMEOUT_SECONDS = <<"0">>],
     [BaseEnv EXCEPT !.QUALTRICS_POLL_INTERVAL_SECONDS = <<"1", ".", "5">>,
                     !.QUALTRICS_POLL_TIMEOUT_SECONDS = <<"2", "e", "0">>],
     [BaseEnv EXCEPT !.QUALTRICS_POLL_INTERVAL_SECONDS = <<"n", "a", "n">>,
                     !.QUALTRICS_POLL_TIMEOUT_SECONDS = <<"I", "n", "f">>],
     [BaseEnv EXCEPT !.QUALTRICS_API_TOKEN = NoneText],
     [BaseEnv EXCEPT !.QUALTRICS_SURVEY_ID = <<" ">>],
     [BaseEnv EXCEPT !.QUALTRICS_BODY_COLUMN = ColT],
     [BaseEnv EXCEPT !.QUALTRICS_URL_ENCRYPTION_KEY = SubSeq(Key16, 1, 15)],
     [BaseEnv EXCEPT !.QUALTRICS_POLL_TIMEOUT_SECONDS = <<"x">>]}

\* the environments of the runs whose archives rows_from_zip reads: the
\* published column unset, blank or named, the published value unset or
\* given, the date column unset or named
RowEnvs ==
    {[BaseEnv EXCEPT !.QUALTRICS_PUBLISHED_COLUMN = p, !.QUALTRICS_PUBLISHED_VALUE = v,
                     !.QUALTRICS_RECORDED_DATE_COLUMN = d] :
        p \in {NoneText, <<" ">>, ColP},
        v \in {NoneText, <<"1">>, <<"y", "e", "s">>, <<"x">>},
        d \in {NoneText, ColD}}

InitPoll ==
    /\ ppc = "off"
    /\ status = <<>>
    /\ file_id = NoneText
    /\ poll_timeout_seconds = Float(0)
    /\ poll_interval_seconds = Float(0)
    /\ now = Float(0)
    /\ started = Float(0)
    /\ polls = 0
    /\ asked = Float(0)

InitSync ==
    /\ tok \in TokenMaps
    /\ \/ dirExists = FALSE /\ fs = EmptyDir
       \/ dirExists = TRUE /\ fs \in InitDirs(tok)
    /\ pc = "idle"
    /\ rows = <<>>
    /\ dry_run = FALSE
    /\ idx = 1
    /\ existing = EmptyDir
    /\ created = 0
    /\ updated = 0
    /\ skipped = 0
    /\ fs0 = fs
    /\ dir0 = dirExists
    /\ map0 = EmptyDir
    /\ rerun = FALSE
    /\ nops = 0
    /\ used = 0

\* main has not been called
InitMain ==
    /\ stage = "off"
    /\ exit_code = 0 - 1
    /\ environ = BaseEnv
    /\ cfg = BaseConfig
    /\ zip = BadZip

Init == InitSync /\ InitPoll /\ InitMain

\* sync_rows is called with rws and dry: the directory is made when missing
\* and scanned, m is what scan_existing_petitions returns
SyncStart(m, rws, dry) ==
    /\ used + Len(rws) <= MaxRows
    /\ rows' = rws
    /\ dry_run' = dry
    /\ dirExists' = TRUE
    /\ existing' = m
    /\ map0' = m
    /\ created' = 0
    /\ updated' = 0
    /\ skipped' = 0
    /\ idx' = 1
    /\ fs0' = fs
    /\ dir0' = dirExists
    /\ rerun' = FALSE
    /\ nops' = 0
    /\ used' = used + Len(rws)
    /\ pc' = "loop"
    /\ UNCHANGED <<fs, tok>>

\* the next invocation is a real run on the same rows as the real run that
\* has just returned
SyncAgain(m) ==
    /\ pc = "done"
    /\ ~dry_run
    /\ ~rerun
    /\ existing' = m
    /\ map0' = m
    /\ created' = 0
    /\ updated' = 0
    /\ skipped' = 0
    /\ idx' = 1
    /\ fs0' = fs
    /\ dir0' = dirExists
    /\ rerun' = TRUE
    /\ nops' = 0
    /\ pc' = "loop"
    /\ UNCHANGED <<fs, tok, dirExists, rows, dry_run, used>>

\* one iteration of the for loop
SyncRow ==
    /\ pc = "loop"
    /\ idx <= Len(rows)
    /\ LET st == sync_row(Here, rows[idx], dry_run) IN
       /\ fs' = st.fs
       /\ existing' = st.existing
       /\ created' = st.created
       /\ updated' = st.updated
       /\ skipped' = st.skipped
       /\ nops' = st.nops
       /\ pc' = IF st.raised THEN "raised" ELSE "loop"
       /\ idx' = IF st.raised THEN idx ELSE idx + 1
    /\ UNCHANGED <<dirExists, tok, rows, dry_run, fs0, dir0, map0, rerun, used>>

\* one iteration of the for loop of a real run in which current.rename or
\* target.write_text raises OSError: the exception leaves sync_rows
SyncRowFails ==
    /\ pc = "loop"
    /\ idx <= Len(rows)
    /\ ~dry_run
    /\ rows[idx].is_published
    /\ ~MissingField(rows[idx])
    /\ LET row == rows[idx]
           response_id == row.response_id
           current == IF response_id \in DOMAIN existing
                      THEN existing[response_id] ELSE NonePath
           target == choose_petition_path(fs, response_id, current)
           moved == Moved(current, target)
       IN
       \/ /\ moved
          /\ fs' = fs
          /\ nops' = nops
       \/ /\ ~(moved /\ current \notin DOMAIN fs)
          /\ LET fs1 == IF moved THEN Rename(fs, current, target) ELSE fs
                 n1 == IF moved THEN nops + 1 ELSE nops
                 markdown == render_markdown(row.title, row.body, response_id,
                                             row.recorded_date)
                 already == IF target \in DOMAIN fs1 THEN read_text(fs1[target])
                            ELSE NoneText
             IN
             /\ ~Unchanged(already, markdown, moved)
             /\ MustWrite(already, markdown, FALSE)
             /\ fs' \in FailedWrites(fs1, target, markdown)
             /\ nops' = n1
    /\ pc' = "raised"
    /\ UNCHANGED <<dirExists, tok, rows, dry_run, idx, existing, created, updated,
                   skipped, fs0, dir0, map0, rerun, used>>

\* the loop is over: return created, updated, skipped
SyncReturn ==
    /\ pc = "loop"
    /\ idx > Len(rows)
    /\ pc' = "done"
    /\ UNCHANGED <<dirExists, fs, tok, rows, dry_run, idx, existing, created, updated,
                   skipped, fs0, dir0, map0, rerun, nops, used>>

Next ==
    \/ /\ pc \in {"idle", "done"}
       /\ \E m \in scan_existing_petitions(fs) :
          \E rws \in RowLists(MaxRows - used), dry \in BOOLEAN :
             SyncStart(m, rws, dry) /\ UNCHANGED <<pollVars, mainVars>>
    \/ /\ pc = "done"
       /\ \E m \in scan_existing_petitions(fs) : SyncAgain(m) /\ UNCHANGED <<pollVars, mainVars>>
    \/ SyncRow /\ UNCHANGED <<pollVars, mainVars>>
    \/ SyncReturn /\ UNCHANGED <<pollVars, mainVars>>

Spec == Init /\ [][Next]_vars

\* the same program started on an existing, empty directory
InitEmpty == Init /\ dirExists /\ fs = EmptyDir

SpecEmpty == InitEmpty /\ [][Next]_vars

----------------------------------------------------------------------------
(* wait_for_export.                                                        *)

\* the last reading of the clock, which is also that of every later time;
\* the last count of polls, which is also that of every higher number; the
\* seconds one request may take
MaxClock == 4

MaxPolls == 4

MaxDelay == 1

\* the configured poll timeouts and poll intervals, as float() gives them:
\* whole and broken numbers of seconds (0.4 and 1.2 are not floats: the
\* floats nearest to them are taken, and three times the one is above the
\* other), negative ones, an interval too long for time.sleep and one that
\* is too long on a system that has run for a second, and the inf and nan
\* that float() accepts
Timeouts ==
    {Float(0), Float(1), Float(2), FloatOf(<<"1", ".", "2">>), Float(0 - 1), Inf, NaN}

Intervals ==
    {Float(0), Float(1), FloatOf(<<"1", ".", "5">>), FloatOf(<<"0", ".", "4">>),
     FloatOf(<<"1", "e", "1", "0">>), FloatOf(<<"9", "2", "2", "3", "3", "7", "2", "0", "3", "6">>),
     Float(0 - 1), Inf, NaN}

\* str(v) for a string or None
Str(v) == IF v = NoneText THEN <<"N", "o", "n", "e">> ELSE v

StatusComplete == <<"c", "o", "m", "p", "l", "e", "t", "e">>

StatusFailed == <<"f", "a", "i", "l", "e", "d">>

StatusError == <<"e", "r", "r", "o", "r">>

\* what the "status" of an answer may be: missing, null or a string
Answers ==
    {<<>>, NoneText, StatusComplete, StatusFailed, StatusError,
     <<"C", "o", "m", "p", "l", "e", "t", "e">>, <<"F", "A", "I", "L", "E", "D">>,
     <<"i", "n", "P", "r", "o", "g", "r", "e", "s", "s">>}

\* what the "fileId" of an answer may be: missing, empty or a string
FileIds == {NoneText, <<>>, <<"F">>}

\* "status = str(data.get("status", "")).lower()"
StatusOf(answer) == Lower(Str(answer))

\* "if status == "complete""
IsComplete(st) == st = StatusComplete

\* "if not file_id"
NoFileId(fid) == fid = NoneText \/ fid = <<>>

\* a failure check that forgets "error"
IsFailure_failed_only(st) == st = StatusFailed

\* "if status in {"failed", "error"}"
IsFailure(st) == st \in {StatusFailed, StatusError}

\* "if time.time() - started > config.poll_timeout_seconds"
TimedOut(t, start, timeout) == FGreater(FSub(t, start), timeout)

\* the reading of the clock that stands for the time MaxClock and for every
\* time after it
ClockEnd == Float(MaxClock)

\* the reading of the clock d seconds after the reading t
ClockAfter(t, d) ==
    IF FGreater(FAdd(t, d), ClockEnd) THEN ClockEnd ELSE FAdd(t, d)

\* what the timeout test gives at the reading t.  At ClockEnd it is made at
\* MaxClock or at some later time: with a finite timeout it is TRUE from
\* some time on, with the timeout inf or nan it is FALSE at every time
TimeoutTests(t, start, timeout) ==
    IF t = ClockEnd /\ IsFinite(timeout) THEN {TimedOut(t, start, timeout), TRUE}
    ELSE {TimedOut(t, start, timeout)}

\* readings of the monotonic clock when time.sleep is called, in
\* nanoseconds: a system just started and one that has run for a second
Monotonics == {<<>>, BPow10(9)}

NanosPerSecond == Float(1000000000)

\* the first number of nanoseconds that time.sleep cannot hold in its 64 bit
\* count, as a float and as a big natural
NanosOverflow == Finite(FALSE, <<1>>, 63)

BNanosOverflow == BShl(<<1>>, 63)

\* the whole number of nanoseconds of the float nanos >= 0, rounded up
SleepNanos(nanos) ==
    IF nanos.exp >= 0 THEN BShl(nanos.man, nanos.exp)
    ELSE BAdd(BShr(nanos.man, 0 - nanos.exp),
              IF BLowZero(nanos.man, 0 - nanos.exp) THEN <<>> ELSE <<1>>)

\* time.sleep(secs) raises (CPython 3.11 on Linux): ValueError for nan and
\* for a negative length, OverflowError when secs * 1e9 nanoseconds, as a
\* float, is 2^63 or more, and OSError when the time to sleep until, the
\* monotonic clock plus these nanoseconds, is 2^63 or more
SleepRaises(secs, mono) ==
    \/ secs.kind = "nan"
    \/ FGreater(Float(0), secs)
    \/ ~FGreater(NanosOverflow, FMul(secs, NanosPerSecond))
    \/ BCmp(BAdd(mono, SleepNanos(FMul(secs, NanosPerSecond))), BNanosOverflow) >= 0

\* wait_for_export is called: started = time.time()
WaitStart(timeout, interval) ==
    /\ ppc = "off"
    /\ poll_timeout_seconds' = timeout
    /\ poll_interval_seconds' = interval
    /\ started' = now
    /\ ppc' = "request"
    /\ UNCHANGED <<status, file_id, now, polls, asked>>

\* api_request returns after d seconds with an answer
ApiRequest(answer, fid, d) ==
    /\ ppc = "request"
    /\ status' = StatusOf(answer)
    /\ file_id' = fid
    /\ polls' = IntMin(polls + 1, MaxPolls)
    /\ asked' = now
    /\ now' = ClockAfter(now, Float(d))
    /\ ppc' = "answered"
    /\ UNCHANGED <<poll_timeout_seconds, poll_interval_seconds, started>>

\* api_request raises (HTTP error, connection failure, invalid JSON)
ApiRaises ==
    /\ ppc = "request"
    /\ ppc' = "api_error"
    /\ UNCHANGED <<status, file_id, poll_timeout_seconds, poll_interval_seconds,
                   now, started, polls, asked>>

\* the if chain on the answer: return, raise or go to sleep; late is what
\* the timeout test gives
Classify(late) ==
    /\ ppc = "answered"
    /\ late \in TimeoutTests(now, started, poll_timeout_seconds)
    /\ ppc' = IF IsComplete(status)
              THEN (IF NoFileId(file_id) THEN "no_file" ELSE "returned")
              ELSE IF IsFailure(status) THEN "export_failed"
              ELSE IF late THEN "timed_out"
              ELSE "sleep"
    /\ UNCHANGED <<status, file_id, poll_timeout_seconds, poll_interval_seconds,
                   now, started, polls, asked>>

\* time.sleep(config.poll_interval_seconds): the clock moves on by the
\* interval, or the call raises and the exception leaves wait_for_export
Sleep(mono) ==
    /\ ppc = "sleep"
    /\ IF SleepRaises(poll_interval_seconds, mono)
       THEN /\ ppc' = "sleep_error"
            /\ now' = now
       ELSE /\ now' = ClockAfter(now, poll_interval_seconds)
            /\ ppc' = "request"
    /\ UNCHANGED <<status, file_id, poll_timeout_seconds, poll_interval_seconds,
                   started, polls, asked>>

NextPoll ==
    \/ \E timeout \in Timeouts, interval \in Intervals :
          WaitStart(timeout, interval) /\ UNCHANGED <<syncVars, mainVars>>
    \/ \E answer \in Answers, fid \in FileIds, d \in 0..MaxDelay :
          ApiRequest(answer, fid, d) /\ UNCHANGED <<syncVars, mainVars>>
    \/ ApiRaises /\ UNCHANGED <<syncVars, mainVars>>
    \/ \E late \in BOOLEAN : Classify(late) /\ UNCHANGED <<syncVars, mainVars>>
    \/ \E mono \in Monotonics : Sleep(mono) /\ UNCHANGED <<syncVars, mainVars>>

SpecPoll == InitEmpty /\ [][NextPoll]_vars

\* the positions of wait_for_export
PollPositions ==
    {"off", "request", "answered", "sleep", "returned", "no_file", "export_failed",
     "timed_out", "api_error", "sleep_error"}

\* the call moves on from a position at which it has a step to take: a step
\* of NextPoll can be taken exactly when ppc is "off", "request", "answered"
\* or "sleep", and every step of it changes ppc
PollMoves ==
    /\ ppc \in {"off", "request", "answered", "sleep"}
    /\ ppc' \in PollPositions \ {ppc}

\* the same loop when every request is answered and every sleep ends: the
\* call goes on as long as it has a step to take
SpecPollLive ==
    /\ InitEmpty
    /\ [][NextPoll]_vars
    /\ WF_ppc(PollMoves)

----------------------------------------------------------------------------
(* main and its stages.                                                    *)

\* "rows = rows_from_zip(zip_bytes, cfg)": an exception goes to main's except
RowsFromZip ==
    /\ stage = "rows_from_zip"
    /\ LET r == rows_from_zip(zip, cfg) IN
       /\ rows' = r.rows
       /\ stage' = IF r.raised THEN "except" ELSE "sync_rows"
    /\ UNCHANGED <<dirExists, fs, tok, pc, dry_run, idx, existing, created, updated,
                   skipped, fs0, dir0, map0, rerun, nops, used, exit_code, environ, cfg, zip>>

\* main is about to call rows_from_zip: on every archive, with the
\* configuration load_config returned in the environment of the run
InitRows ==
    /\ InitSync
    /\ dirExists
    /\ fs = EmptyDir
    /\ InitPoll
    /\ stage = "rows_from_zip"
    /\ exit_code = 0 - 1
    /\ environ \in RowEnvs
    /\ cfg = load_config(environ).cfg
    /\ zip \in Zips(MaxRows)

NextRows == RowsFromZip /\ UNCHANGED pollVars

SpecRows == InitRows /\ [][NextRows]_vars

\* the calls of main, in the order of its try block
Stages ==
    <<"load_config", "start_export", "wait_for_export", "download_export_zip",
      "rows_from_zip", "sync_rows">>

\* "cfg = load_config()"
LoadConfig ==
    /\ stage = "load_config"
    /\ \E r \in {load_config(environ)} :
          /\ cfg' = IF r.raised THEN cfg ELSE r.cfg
          /\ stage' = IF r.raised THEN "except" ELSE "start_export"
    /\ UNCHANGED <<exit_code, environ, zip>>

\* "progress_id = start_export(cfg)": the request raises, or its answer
\* carries a progressId or none
StartExport(raises, has_progress_id) ==
    /\ stage = "start_export"
    /\ stage' = IF raises \/ ~has_progress_id THEN "except" ELSE "wait_for_export"
    /\ UNCHANGED <<exit_code, environ, cfg, zip>>

\* the call of wait_for_export has ended
PollEnded(p) ==
    p \in {"returned", "no_file", "export_failed", "timed_out", "api_error", "sleep_error"}

\* a main that goes on after a timeout
WaitRaised_but_timeout(p) == p \in {"no_file", "export_failed", "api_error", "sleep_error"}

\* how a call of wait_for_export that has ended raised
WaitRaised(p) ==
    p \in {"no_file", "export_failed", "timed_out", "api_error", "sleep_error"}

\* "file_id = wait_for_export(cfg, progress_id)" has returned or raised
WaitEnds ==
    /\ stage = "wait_for_export"
    /\ PollEnded(ppc)
    /\ stage' = IF WaitRaised(ppc) THEN "except" ELSE "download_export_zip"
    /\ UNCHANGED <<exit_code, environ, cfg, zip>>

\* the archives the platform answers with in a run of main
MainZips ==
    {BadZip,
     [is_zip |-> TRUE, names |-> << <<"r", ".", "t", "x", "t">> >>, table |-> <<>>],
     [is_zip |-> TRUE, names |-> << <<"a", ".", "C", "S", "V">> >>, table |-> <<>>],
     [is_zip |-> TRUE, names |-> << <<"a", ".", "C", "S", "V">> >>,
      table |-> << <<ColT, ColI, ColP, ColD>>, <<TitleT, IdR, <<"1">>, Date1>> >>],
     [is_zip |-> TRUE, names |-> << <<"a", ".", "C", "S", "V">> >>,
      table |-> << <<ColT, ColB, ColI, ColP, ColD>>,
                   <<TitleU, BodyB, IdR, <<"1">>, Date1>> >>],
     [is_zip |-> TRUE, names |-> << <<"a", ".", "C", "S", "V">> >>,
      table |-> << <<ColT, ColB, ColI, ColP, ColD>>,
                   <<TitleT, BodyB, IdS, <<"1">>, Date1>>,
                   <<TitleT, BodyB, IdR, <<"0">>, Date1>> >>],
     [is_zip |-> TRUE, names |-> << <<"a", ".", "C", "S", "V">> >>,
      table |-> << <<ColT, ColB, ColI, ColP, ColD>>,
                   <<TitleT, BodyB, IdR, <<"1">>, Date1>>,
                   <<TitleU, BodyB, IdR, <<"1">>, Date1>> >>]}

\* "zip_bytes = download_export_zip(cfg, file_id)": the request raises or
\* answers the bytes z
DownloadExportZip(raises, z) ==
    /\ stage = "download_export_zip"
    /\ zip' = IF raises THEN zip ELSE z
    /\ stage' = IF raises THEN "except" ELSE "rows_from_zip"
    /\ UNCHANGED <<exit_code, environ, cfg>>

\* sync_rows has returned or raised
SyncEnds ==
    /\ stage = "sync_rows"
    /\ pc \in {"done", "raised"}
    /\ stage' = IF pc = "raised" THEN "except" ELSE "exit"
    /\ exit_code' = IF pc = "raised" THEN exit_code ELSE 0
    /\ UNCHANGED <<environ, cfg, zip>>

\* "except Exception as exc: ... return 1"
Except ==
    /\ stage = "except"
    /\ exit_code' = 1
    /\ stage' = "exit"
    /\ UNCHANGED <<environ, cfg, zip>>

\* main is called: on no directory or on one that holds a document
InitMainRun ==
    /\ InitSync
    /\ ~dirExists \/ fs = Path("legacy", 1) :> render_markdown(TitleT, BodyB, IdR, Date1)
    /\ InitPoll
    /\ stage = "load_config"
    /\ exit_code = 0 - 1
    /\ environ \in Envs
    /\ cfg = BaseConfig
    /\ zip = BadZip

NextMain ==
    \/ LoadConfig /\ UNCHANGED <<syncVars, pollVars>>
    \/ \E raises, has_progress_id \in BOOLEAN :
          StartExport(raises, has_progress_id) /\ UNCHANGED <<syncVars, pollVars>>
    \/ /\ stage = "wait_for_export"
       /\ \/ WaitStart(cfg.poll_timeout_seconds, cfg.poll_interval_seconds)
          \/ \E answer \in Answers, fid \in FileIds, d \in 0..MaxDelay :
                ApiRequest(answer, fid, d)
          \/ ApiRaises
          \/ \E late \in BOOLEAN : Classify(late)
          \/ \E mono \in Monotonics : Sleep(mono)
       /\ UNCHANGED <<syncVars, mainVars>>
    \/ WaitEnds /\ UNCHANGED <<syncVars, pollVars>>
    \/ \E raises \in BOOLEAN, z \in MainZips :
          DownloadExportZip(raises, z) /\ UNCHANGED <<syncVars, pollVars>>
    \/ RowsFromZip /\ UNCHANGED pollVars
    \/ /\ stage = "sync_rows"
       /\ \/ /\ pc = "idle"
             /\ \E m \in scan_existing_petitions(fs), dry \in BOOLEAN :
                   SyncStart(m, rows, dry)
          \/ SyncRow
          \/ SyncReturn
       /\ UNCHANGED <<pollVars, mainVars>>
    \/ SyncEnds /\ UNCHANGED <<syncVars, pollVars>>
    \/ Except /\ UNCHANGED <<syncVars, pollVars>>

SpecMain == InitMainRun /\ [][NextMain]_vars

\* a run of main in which the renames and writes of sync_rows may fail
NextMainFail ==
    \/ NextMain
    \/ /\ stage = "sync_rows"
       /\ SyncRowFails
       /\ UNCHANGED <<pollVars, mainVars>>

SpecMainFail == InitMainRun /\ [][NextMainFail]_vars


----------------------------------------------------------------------------
(* Properties of sync_rows.                                                *)

InRun == pc \in {"loop", "done"}

\* a row that is published and has an id, a title and a body
Eligible(row) ==
    /\ row.is_published
    /\ row.response_id # <<>>
    /\ row.title # <<>>
    /\ row.body # <<>>

Markdown(row) == render_markdown(row.title, row.body, row.response_id, row.recorded_date)

\* no two files of f carry the same qualtrics_response_id
Unique(f) ==
    \A p, q \in DOMAIN f :
        (p # q /\ ResponseIdOf(f[p]) # NoneText) => ResponseIdOf(f[p]) # ResponseIdOf(f[q])

\* C1: a real run that repeats the rows of the real run before it, on the
\* directory as that run left it, creates nothing, updates nothing and makes
\* no rename and no write.
C1_Idempotent ==
    (InRun /\ rerun) => (created = 0 /\ updated = 0 /\ nops = 0)

\* C2: when no two documents carry the same externalId as a real run starts,
\* no two documents carry the same externalId after any row of the run.
C2_Unique ==
    (InRun /\ ~dry_run /\ Unique(fs0)) => Unique(fs)

\* the rows of rws that are eligible and followed by no eligible row of the same id
LastEligible(rws) ==
    {k \in 1..Len(rws) :
        /\ Eligible(rws[k])
        /\ \A j \in (k + 1)..Len(rws) :
              ~(Eligible(rws[j]) /\ rws[j].response_id = rws[k].response_id)}

\* C3: after a real run, every externalId of an eligible row has a document
\* whose content is render_markdown of the last eligible row of that id; one
\* eligible row on an empty directory gives exactly one document and created = 1.
C3_Converges ==
    (pc = "done" /\ ~dry_run) =>
        /\ \A k \in LastEligible(rows) :
              /\ rows[k].response_id \in DOMAIN existing
              /\ existing[rows[k].response_id] \in DOMAIN fs
              /\ fs[existing[rows[k].response_id]] = Markdown(rows[k])
        /\ (fs0 = EmptyDir /\ Len(rows) = 1 /\ Eligible(rows[1])) =>
              (Cardinality(DOMAIN fs) = 1 /\ created = 1)

\* a real run over two eligible rows of one id with different documents, on a
\* directory that already held a document of that id, has returned
C3_Witness ==
    /\ pc = "done"
    /\ ~dry_run
    /\ Len(rows) = 2
    /\ Eligible(rows[1])
    /\ Eligible(rows[2])
    /\ rows[1].response_id = rows[2].response_id
    /\ Markdown(rows[1]) # Markdown(rows[2])
    /\ rows[1].response_id \in DOMAIN map0
    /\ updated = 2

\* C4: a run returns the same (created, updated, skipped) as a run of the
\* other mode (dry for real, real for dry) started on the same directory with
\* the same rows.
C4_DryRunParity ==
    pc = "done" =>
        Counts(Here) = Counts(sync_rows_from(RunState(fs0, map0), rows, 1, ~dry_run))

\* C5: a dry run leaves the filesystem as it found it: no file created,
\* rewritten or renamed and no directory created.
C5_DryRunWritesNothing ==
    (InRun /\ dry_run) => (fs = fs0 /\ dirExists = dir0)

\* C6: for an externalId with a known document at p, choose_petition_path
\* with current_path = p returns p, whatever the file name of p is and
\* whichever other names are free or taken.
C6_KeepsKnownPath ==
    pc = "loop" =>
        \A i \in DOMAIN existing :
            existing[i] \in DOMAIN fs =>
                choose_petition_path(fs, i, existing[i]) = existing[i]

\* C7: started on an empty directory, no step ever takes a file away from
\* the path it is at (no document is renamed).
C7_PathsStay ==
    [][\A p \in DOMAIN fs : p \in DOMAIN fs']_vars

\* the ids of the eligible rows of rws
EligibleIds(rws) == {rws[k].response_id : k \in {j \in 1..Len(rws) : Eligible(rws[j])}}

\* C8: every externalId that had a document when the run started has one
\* when it returns; every file whose externalId is not that of an eligible
\* row (files without one included) keeps its path and content; and no row's
\* rename or write lands on a file of another externalId.
C8_NoLoss ==
    [][/\ (pc = "loop" /\ pc' = "done") =>
             /\ IdsIn(fs0) \subseteq IdsIn(fs)
             /\ \A p \in DOMAIN fs0 :
                   ResponseIdOf(fs0[p]) \notin EligibleIds(rows) =>
                       (p \in DOMAIN fs /\ fs[p] = fs0[p])
       /\ (pc = "loop" /\ idx <= Len(rows)) =>
             \A p \in DOMAIN fs :
                 ResponseIdOf(fs[p]) # rows[idx].response_id =>
                     (p \in DOMAIN fs' /\ fs'[p] = fs[p])
      ]_vars

\* C9: a row that is not published, or has an empty title, body or id, adds
\* one to skipped and changes nothing else: not created, not updated, no
\* file, not the directory, not the id -> path map.
C9_IneligibleIsSkipped ==
    [][(pc = "loop" /\ idx <= Len(rows) /\ ~Eligible(rows[idx])) =>
          /\ skipped' = skipped + 1
          /\ created' = created
          /\ updated' = updated
          /\ fs' = fs
          /\ dirExists' = dirExists
          /\ existing' = existing
      ]_vars

\* an ineligible row has just been skipped in a real run although the
\* directory holds a document of its id
C9_Witness ==
    /\ pc = "loop"
    /\ ~dry_run
    /\ idx > 1
    /\ ~Eligible(rows[idx - 1])
    /\ rows[idx - 1].response_id \in DOMAIN existing
    /\ existing[rows[idx - 1].response_id] \in DOMAIN fs
    /\ skipped >= 1

----------------------------------------------------------------------------
(* Properties of wait_for_export.                                          *)

\* C10: wait_for_export returns only on a poll whose status is complete; a
\* poll whose status is failed or error makes it fail with the export
\* failure; a poll of any other status ends neither way: the loop goes on
\* to sleep or times out.
C10_Classified ==
    [][ppc = "answered" =>
          /\ ppc' = "returned" => IsComplete(status)
          /\ status \in {StatusFailed, StatusError} => ppc' = "export_failed"
          /\ status \notin {StatusComplete, StatusFailed, StatusError} =>
                ppc' \in {"sleep", "timed_out"}
      ]_vars

\* the call has returned a handle on its third poll
C10_Witness ==
    /\ ppc = "returned"
    /\ polls = 3
    /\ status = StatusComplete

\* C11: a poll answered when more than poll_timeout_seconds have passed
\* since wait_for_export started makes the call fail (the timeout error, or
\* the error of a terminal answer), and no handle is returned from a poll
\* that was sent after the timeout was exceeded.
C11_TimeoutWins ==
    [][/\ (ppc = "answered" /\ TimedOut(now, started, poll_timeout_seconds)) =>
             ppc' \in {"timed_out", "export_failed", "no_file"}
       /\ ppc' = "returned" => ~TimedOut(asked, started, poll_timeout_seconds)
      ]_vars

----------------------------------------------------------------------------
(* Properties of rows_from_zip and main.                                   *)

\* no published column is configured: QUALTRICS_PUBLISHED_COLUMN is unset or
\* blank
NoPublishedColumn(e) == env_required(e, "QUALTRICS_PUBLISHED_COLUMN") = <<>>

\* C13: when the published-column name of the configuration is empty, every
\* row rows_from_zip returns has is_published = TRUE, whatever the expected
\* published value and the cells of the row are.
C13_AllPublished ==
    (stage = "sync_rows" /\ NoPublishedColumn(environ)) =>
        \A k \in 1..Len(rows) : rows[k].is_published

\* the position of a stage in the order of main's calls
StageIndex(name) == CHOOSE i \in 1..Len(Stages) : Stages[i] = name

\* C12: main makes its calls in the order load_config, start_export,
\* wait_for_export, download_export_zip, rows_from_zip, sync_rows, each only
\* after the one before it has returned; sync_rows starts only when the
\* export was awaited with success and the archive gave rows; and a run that
\* ends without sync_rows having started exits with 1, has processed no row
\* and leaves the directory and its files as they were.
C12_FailureTouchesNothing ==
    /\ [][(stage' # stage /\ stage' \notin {"except", "exit"}) =>
             StageIndex(stage') = StageIndex(stage) + 1]_vars
    /\ [](pc # "idle" =>
             /\ stage \in {"sync_rows", "except", "exit"}
             /\ ppc = "returned"
             /\ ~rows_from_zip(zip, cfg).raised)
    /\ []((stage = "exit" /\ pc = "idle") =>
             /\ exit_code = 1
             /\ created + updated + skipped = 0
             /\ idx = 1
             /\ fs = fs0
             /\ dirExists = dir0)

\* main has exited because the CSV of the archive lacks a required column,
\* on a directory that holds a document
C12_Witness ==
    /\ stage = "exit"
    /\ pc = "idle"
    /\ ppc = "returned"
    /\ zip.is_zip
    /\ zip.table # <<>>
    /\ missing_columns(zip.table[1], cfg) # {}
    /\ fs # EmptyDir

----------------------------------------------------------------------------
(* Properties of choose_petition_path.                                     *)

\* the current paths choose_petition_path is asked about: none, every file
\* of the directory, every path of the id -> path map
CurrentPaths == {NonePath} \cup DOMAIN fs \cup {existing[i] : i \in DOMAIN existing}

\* C14: for every id and current path, the path choose_petition_path returns
\* does not exist or is the current path, it is a name of the id's probe
\* order, and every name before it in that order exists and is not the
\* current path.
C14_FreeOrCurrent ==
    \A i \in Ids, c \in CurrentPaths :
        LET r == choose_petition_path(fs, i, c) IN
        /\ r \notin DOMAIN fs \/ r = c
        /\ r.base = encrypted_response_token(i)
        /\ \A k \in 1..(r.n - 1) :
              Path(r.base, k) \in DOMAIN fs /\ Path(r.base, k) # c

\* the first two names of an id are taken by files that are not its current
\* path, and the third name is returned
C14_Witness ==
    \E i \in Ids : choose_petition_path(fs, i, NonePath).n = 3

\* C20: for every id and current path the probe of choose_petition_path ends
\* and has tried at most (number of files + 1) names.
C20_ProbeBounded ==
    \A i \in Ids, c \in CurrentPaths :
        LET r == choose_petition_path(fs, i, c) IN
        /\ r.n >= 1
        /\ r.n <= Cardinality(DOMAIN fs) + 1

\* a probe that has tried every file of a directory of two files and
\* returns the name after them
C20_Witness ==
    /\ Cardinality(DOMAIN fs) = 2
    /\ \E i \in Ids, c \in CurrentPaths : choose_petition_path(fs, i, c).n = 3

----------------------------------------------------------------------------
(* More properties of sync_rows.                                           *)

\* no two ids of the id -> path map m have the same path
Injective(m) == \A i, j \in DOMAIN m : m[i] = m[j] => i = j

\* C15: in a real and in a dry run, no two ids are given the same path: the
\* id -> path map is injective after every row, also when two ids have the
\* same token.
C15_DistinctTargets ==
    InRun => Injective(existing)

----------------------------------------------------------------------------
(* Termination of wait_for_export.                                         *)

\* C16: with a positive poll interval that the clock advances by between
\* polls, whatever the answers are and whatever the configured timeout is, a
\* call of wait_for_export that is about to poll eventually ends: it returns
\* a handle or raises (no fileId, export failure, timeout, request error); it
\* never polls forever.
C16_PollEnds ==
    (ppc = "request" /\ IsFinite(poll_interval_seconds)
        /\ FGreater(poll_interval_seconds, Float(0))) ~> PollEnded(ppc)

\* a file that the rows processed so far have written or renamed: it was not
\* there when the run started, or held something else
TouchedByRun(p) == p \in DOMAIN fs /\ (p \notin DOMAIN fs0 \/ fs0[p] # fs[p])

\* C17: when a rename or write fails at row k of a real run, every file that
\* the rows before k wrote or renamed keeps its path and content, no row is
\* processed after the failure, and main exits with a non-zero status.
C17_AbortKeepsProgress ==
    [][/\ (pc = "loop" /\ pc' = "raised") =>
             \A p \in DOMAIN fs :
                 TouchedByRun(p) => (p \in DOMAIN fs' /\ fs'[p] = fs[p])
       /\ pc = "raised" =>
             (pc' = "raised" /\ idx' = idx /\ fs' = fs /\ existing' = existing)
       /\ (pc = "raised" /\ stage' = "exit") => exit_code' = 1
      ]_vars

\* C18: each processed row makes exactly one of created, updated, skipped
\* grow by one and leaves the two others alone, so during the loop the three
\* add up to the number of rows processed and, when sync_rows returns, to the
\* number of input rows; in dry-run and in real mode.
C18_CountedOnce ==
    [][/\ (pc = "loop" /\ idx' = idx + 1) =>
             \/ created' = created + 1 /\ updated' = updated /\ skipped' = skipped
             \/ created' = created /\ updated' = updated + 1 /\ skipped' = skipped
             \/ created' = created /\ updated' = updated /\ skipped' = skipped + 1
       /\ pc' = "loop" => created' + updated' + skipped' = idx' - 1
       /\ pc' = "done" => created' + updated' + skipped' = Len(rows')
      ]_vars

\* a run has returned on two rows, one of them skipped and the other one
\* updated
C18_Witness ==
    /\ pc = "done"
    /\ Len(rows) = 2
    /\ updated = 1
    /\ skipped = 1

\* C19: in a real run started on a directory where no two files carry the
\* same externalId, a row is counted created only when no file on disk
\* carries its externalId just before the row is processed, and when the run
\* returns the directory holds as many files as at the start plus created.
C19_CreatedIsNew ==
    [][(~dry_run /\ Unique(fs0)) =>
          /\ (pc = "loop" /\ created' = created + 1) =>
                rows[idx].response_id \notin IdsIn(fs)
          /\ pc' = "done" =>
                Cardinality(DOMAIN fs') = Cardinality(DOMAIN fs0') + created'
      ]_vars

====
